---- MODULE Spec2Model ----
(***************************************************************************)
(* Real-time location tracking client of the admin dashboard:              *)
(*   - SocketService (src/services/socketService.ts): the singleton that   *)
(*     owns the socket.io socket, its connect/disconnect handlers and the  *)
(*     reconnect timer;                                                    *)
(*   - EmployeeTracking (the tracking view): mount/unmount effects, the    *)
(*     socket listeners, handleLocationUpdate, handleEmployeeSelect,       *)
(*     stopTracking and the test mode interval.                            *)
(*   - AuthProvider (src/contexts/AuthContext.tsx): the mount-time auth    *)
(*     check, login and logout over the token and user kept in             *)
(*     localStorage.                                                       *)
(* The browser event loop runs one callback at a time, so every handler is *)
(* one atomic action.  The transports (socket.io sockets) and the server   *)
(* are the environment: they open, fail, drop and deliver events in any    *)
(* order.                                                                  *)
(***************************************************************************)
EXTENDS Integers, Sequences, FiniteSets, TLC

VARIABLES
    (* ---- SocketService fields (socketService.ts:32-35) ---- *)
    socket,             \* this.socket: index into socks, 0 = null
    isConnected,        \* this.isConnected
    reconnectAttempts,  \* this.reconnectAttempts
    (* ---- what the service created ---- *)
    socks,              \* every socket io() returned, in creation order, each
                        \*   "opening": made by connect(), no attempt has ended yet
                        \*   "open"   : connected
                        \*   "closed" : not connected, socket.io is retrying
                        \*   "dead"   : closed by disconnect()
    reconnectTimers,    \* pending setTimeout(...connect(), 5000) callbacks
    frames,             \* every socket.emit of the service, in order
    inflight,           \* the event the server has sent that is still to be handled
    (* ---- EmployeeTracking ---- *)
    mounted,
    awaiting,           \* socket whose connect() promise initializeSocket awaits, 0 = none
    awaitTimer,         \* the 10 s timeout of that connect() call is still to run
    listenSock,         \* socket carrying the view's listeners, 0 = none
    currentRide,
    selectedEmployee,   \* ride id shown as selected, 0 = null
    isSocketConnected,
    socketError,
    isModalOpen,
    isTestMode,
    testInterval,       \* testIntervalRef.current and what its callback closed over
    orphanIntervals,    \* setInterval timers never cleared that the ref no longer holds
    employees,          \* the roster: ride id -> position, NoPos = not in the roster
    (* ---- AuthProvider (src/contexts/AuthContext.tsx) and localStorage ---- *)
    authToken,          \* localStorage 'auth_token', NoItem = absent
    storedUser,         \* localStorage 'user', NoItem = absent
    isAuthenticated,
    user,               \* the user state, NoItem = null
    isLoading,
    authPhase,          \* "unloaded": no page; "checking": checkAuthStatus awaits
                        \*   getUserProfile(); "ready": checkAuthStatus has returned
    loginPending,       \* login() calls awaiting loginUser()
    logoutPending       \* logout() calls awaiting logoutUser()

svcVars  == <<socket, isConnected, reconnectAttempts, socks, reconnectTimers, frames>>
envVars  == <<inflight>>
viewVars == <<mounted, awaiting, awaitTimer, listenSock, currentRide, selectedEmployee, isSocketConnected,
              socketError, isModalOpen, isTestMode, testInterval, orphanIntervals, employees>>
authVars == <<authToken, storedUser, isAuthenticated, user, isLoading, authPhase,
              loginPending, logoutPending>>
vars == <<svcVars, envVars, viewVars, authVars>>

(* ------------------------------ bounds --------------------------------- *)
(* Each specification caps what grows without bound: the sockets the       *)
(* service has created, the reconnect timers pending at once, the frames   *)
(* recorded and the ticks of one test interval.                            *)
MaxSocketsReconnect == 6
MaxTimersReconnect == 1
MaxSocketsRooms == 1
MaxTimersRooms == 1
MaxFramesRooms == 3
MaxFramesAcks == 4
MaxSocketsFeed == 2
MaxFramesFeed == 3
MaxTicks == 7
MaxSocketsCounter == 3
MaxTimersCounter == 1
MaxFramesCounter == 2
MaxLoginsAuth == 3
MaxLogoutsAuth == 3

(* ------------------------- program constants --------------------------- *)
maxReconnectAttempts == 5

ClientDisconnect == "io client disconnect"
UnexpectedReasons == {"transport close", "ping timeout"}


(* ------------------------- SocketService ------------------------------- *)
(* The service as a record, so that a handler which calls several methods  *)
(* composes them in the order of the code.  settled is not a field of the  *)
(* service: it says what the step did to the promise of the connect() call *)
(* whose handler ran ("resolved", "rejected", or "none" when neither       *)
(* resolve nor reject was called).                                         *)
Svc ==
    [socket |-> socket, isConnected |-> isConnected,
     reconnectAttempts |-> reconnectAttempts, socks |-> socks,
     timers |-> reconnectTimers, frames |-> frames, settled |-> "none"]

SvcIs(s) ==
    /\ socket' = s.socket
    /\ isConnected' = s.isConnected
    /\ reconnectAttempts' = s.reconnectAttempts
    /\ socks' = s.socks
    /\ reconnectTimers' = s.timers
    /\ frames' = s.frames

\* socket.connected
Connected(s, t) == t # 0 /\ s.socks[t] = "open"

\* the 'connect' handler without `this.reconnectAttempts = 0`
onConnectKeepsCount(s) ==
    [s EXCEPT !.isConnected = TRUE,
              !.settled = "resolved"]

\* this.socket.on('connect', ...)
onConnect(s) ==
    [s EXCEPT !.isConnected = TRUE,
              !.reconnectAttempts = 0,
              !.settled = "resolved"]

\* this.socket.on('connect_error', ...)
onConnectError(s) ==
    [s EXCEPT !.isConnected = FALSE,
              !.settled = "rejected"]

\* the 'disconnect' handler with the bound off by one: <= for <
onDisconnectOffByOne(s, reason) ==
    LET s1 == [s EXCEPT !.isConnected = FALSE]
    IN  IF reason # ClientDisconnect /\ s1.reconnectAttempts <= maxReconnectAttempts
        THEN [s1 EXCEPT !.reconnectAttempts = @ + 1, !.timers = @ + 1]
        ELSE s1

\* the 'disconnect' handler without the test of the reason
onDisconnectAnyReason(s, reason) ==
    LET s1 == [s EXCEPT !.isConnected = FALSE]
    IN  IF s1.reconnectAttempts < maxReconnectAttempts
        THEN [s1 EXCEPT !.reconnectAttempts = @ + 1, !.timers = @ + 1]
        ELSE s1

\* this.socket.on('disconnect', (reason) => ...)
onDisconnect(s, reason) ==
    LET s1 == [s EXCEPT !.isConnected = FALSE]
    IN  IF reason # ClientDisconnect /\ s1.reconnectAttempts < maxReconnectAttempts
        THEN [s1 EXCEPT !.reconnectAttempts = @ + 1, !.timers = @ + 1]
        ELSE s1

\* the setTimeout(..., 10000) of a connect() call
onConnectTimeout(s) ==
    IF ~s.isConnected THEN [s EXCEPT !.settled = "rejected"] ELSE s

\* connect() without the `this.socket?.connected` early return
connectAlways(s) ==
    [s EXCEPT !.socks = Append(@, "opening"),
              !.socket = Len(s.socks) + 1]

\* connect(): settled = "resolved" when the promise is resolved on return
connect(s) ==
    IF Connected(s, s.socket)
    THEN [s EXCEPT !.settled = "resolved"]
    ELSE [s EXCEPT !.socks = Append(@, "opening"),
                   !.socket = Len(s.socks) + 1]

\* disconnect(): socket.disconnect() runs the 'disconnect' handler at once,
\* with reason 'io client disconnect', when the socket is connected.
disconnect(s) ==
    IF s.socket # 0
    THEN LET t  == s.socket
             s1 == IF Connected(s, t) THEN onDisconnect(s, ClientDisconnect) ELSE s
         IN  [s1 EXCEPT !.socks[t] = "dead", !.socket = 0, !.isConnected = FALSE]
    ELSE s

\* joinRideRoom with `!this.socket` alone for a guard
joinRideRoomUnguarded(s, rideId, userId) ==
    IF s.socket = 0
    THEN s
    ELSE [s EXCEPT !.frames = Append(@, [sock |-> s.socket, ev |-> "joinRideRoom",
                                         rideId |-> rideId, userId |-> userId,
                                         role |-> "admin"])]

\* joinRideRoom(rideId, userId, role = 'admin')
joinRideRoom(s, rideId, userId) ==
    IF s.socket = 0 \/ ~s.isConnected
    THEN s
    ELSE [s EXCEPT !.frames = Append(@, [sock |-> s.socket, ev |-> "joinRideRoom",
                                         rideId |-> rideId, userId |-> userId,
                                         role |-> "admin"])]

\* leaveRideRoom(rideId, userId)
leaveRideRoom(s, rideId, userId) ==
    IF s.socket = 0 \/ ~s.isConnected
    THEN s
    ELSE [s EXCEPT !.frames = Append(@, [sock |-> s.socket, ev |-> "leaveRideRoom",
                                         rideId |-> rideId, userId |-> userId,
                                         role |-> ""])]

\* getConnectionStatus() trusting the flag alone
getConnectionStatusFlagOnly(s) == s.isConnected

\* getConnectionStatus()
getConnectionStatus(s) == s.isConnected /\ Connected(s, s.socket)

(* --------------------------- JS values --------------------------------- *)
(* A coordinate field of a payload is a number, a string or absent.        *)
(* Finite numbers are counted in units of 1e-4 degree (24.8607 is 248607); *)
(* strings are sequences of characters, so that parseFloat and toString    *)
(* are computed, not assumed.                                              *)
Num(n)    == [k |-> "number", n |-> n, s |-> <<>>]
NaN       == [k |-> "NaN", n |-> 0, s |-> <<>>]
Infinity  == [k |-> "Infinity", n |-> 1, s |-> <<>>]
NegInfinity == [k |-> "Infinity", n |-> -1, s |-> <<>>]
Str(cs)   == [k |-> "string", n |-> 0, s |-> cs]
Undefined == [k |-> "undefined", n |-> 0, s |-> <<>>]

FracDigits == 4
DigitChars == <<"0", "1", "2", "3", "4", "5", "6", "7", "8", "9">>
IsDigit(c) == \E i \in 1..10 : DigitChars[i] = c
DigitVal(c) == (CHOOSE i \in 1..10 : DigitChars[i] = c) - 1

RECURSIVE Pow10(_)
Pow10(e) == IF e = 0 THEN 1 ELSE 10 * Pow10(e - 1)
Scale == Pow10(FracDigits)

\* the run of digits of cs from index i on: <<its value, its length>>;
\* digits after the first `keep` are read and left out of the value
RECURSIVE DigitRun(_, _, _, _, _)
DigitRun(cs, i, keep, val, len) ==
    IF i <= Len(cs) /\ IsDigit(cs[i])
    THEN DigitRun(cs, i + 1, keep,
                  IF len < keep THEN 10 * val + DigitVal(cs[i]) ELSE val, len + 1)
    ELSE <<val, len>>

RECURSIVE SkipSpaces(_, _)
SkipSpaces(cs, i) == IF i <= Len(cs) /\ cs[i] = " " THEN SkipSpaces(cs, i + 1) ELSE i

StartsWith(cs, i, word) ==
    /\ i + Len(word) - 1 <= Len(cs)
    /\ \A j \in 1..Len(word) : cs[i + j - 1] = word[j]

InfinityWord == <<"I", "n", "f", "i", "n", "i", "t", "y">>

\* parseFloat(string): leading blanks, a sign, then "Infinity" or the longest
\* prefix digits[.digits] / .digits; NaN when there is none.  (Exponents do
\* not occur in the strings of this model.)
parseFloat(cs) ==
    LET i0   == SkipSpaces(cs, 1)
        neg  == i0 <= Len(cs) /\ cs[i0] = "-"
        i1   == IF i0 <= Len(cs) /\ cs[i0] \in {"-", "+"} THEN i0 + 1 ELSE i0
        ip   == DigitRun(cs, i1, Len(cs), 0, 0)
        i2   == i1 + ip[2]
        dot  == i2 <= Len(cs) /\ cs[i2] = "."
        fp   == IF dot THEN DigitRun(cs, i2 + 1, FracDigits, 0, 0) ELSE <<0, 0>>
        kept == IF fp[2] < FracDigits THEN fp[2] ELSE FracDigits
        mag  == ip[1] * Scale + fp[1] * Pow10(FracDigits - kept)
    IN  IF StartsWith(cs, i1, InfinityWord)
        THEN (IF neg THEN NegInfinity ELSE Infinity)
        ELSE IF ip[2] + fp[2] = 0
        THEN NaN
        ELSE Num(IF neg THEN 0 - mag ELSE mag)

RECURSIVE NatChars(_)
NatChars(n) ==
    IF n < 10 THEN <<DigitChars[n + 1]>>
    ELSE NatChars(n \div 10) \o <<DigitChars[(n % 10) + 1]>>

\* the digits of a fraction f (0 < f < Scale, `width` digits), trailing zeros off
RECURSIVE FracChars(_, _)
FracChars(f, width) ==
    IF f % 10 = 0 THEN FracChars(f \div 10, width - 1)
    ELSE LET d == NatChars(f)
         IN  [j \in 1..width |-> IF j <= width - Len(d) THEN "0"
                                 ELSE d[j - (width - Len(d))]]

\* Number.prototype.toString() of a finite number
toString(n) ==
    LET m == IF n < 0 THEN 0 - n ELSE n
        whole == NatChars(m \div Scale)
        frac == m % Scale
    IN  (IF n < 0 THEN <<"-">> ELSE <<>>) \o whole \o
        (IF frac = 0 THEN <<>> ELSE <<".">> \o FracChars(frac, FracDigits))

\* typeof x === 'string'
IsString(x) == x.k = "string"
\* JS truthiness of a coordinate / id field
Truthy(x) ==
    CASE x.k = "number" -> x.n # 0
      [] x.k = "Infinity" -> TRUE
      [] x.k = "string" -> x.s # <<>>
      [] OTHER -> FALSE
\* isNaN(x): Number(undefined) is NaN
isNaN(x) == x.k \in {"NaN", "undefined"}
\* the validity check without its `=== 0` tests
IsZeroNever(x) == FALSE

\* x === 0
IsZero(x) == x.k = "number" /\ x.n = 0

(* ------------------------- EmployeeTracking ---------------------------- *)
Null == "null"
NoRide == [rideId |-> 0, riderId |-> 0]
NoInterval == [on |-> FALSE, ride |-> NoRide, selected |-> 0, locationIndex |-> 0]
NoPos == <<>>
Pos(lat, lng) == <<lat, lng>>

\* an updatePassengers payload; rideId 0 is "no rideId"
Payload(lat, long, lng, rideId) ==
    [lat |-> lat, long |-> long, lng |-> lng, rideId |-> rideId, message |-> Undefined]

\* handleLocationUpdate without the comparison of rideIds
VerdictAnyRide(cr, data) ==
    LET lat == IF IsString(data.lat) THEN parseFloat(data.lat.s) ELSE data.lat
        lng == IF IsString(data.long) THEN parseFloat(data.long.s)
               ELSE IF IsString(data.lng) THEN parseFloat(data.lng.s)
               ELSE IF Truthy(data.long) THEN data.long
               ELSE IF Truthy(data.lng) THEN data.lng
               ELSE Num(0)
    IN  IF cr = NoRide
        THEN [v |-> "ignored", lat |-> Undefined, lng |-> Undefined]
        ELSE IF data.lat = Str(<<"l", "a", "t">>)
                \/ data.long = Str(<<"l", "o", "n", "g">>)
                \/ data.lat = Str(<<"l", "o", "n", "g">>)
        THEN [v |-> "placeholder", lat |-> Undefined, lng |-> Undefined]
        ELSE IF isNaN(lat) \/ isNaN(lng) \/ IsZero(lat) \/ IsZero(lng)
        THEN [v |-> "invalid", lat |-> lat, lng |-> lng]
        ELSE [v |-> "accepted", lat |-> lat, lng |-> lng]

\* handleLocationUpdate, up to the setEmployees call: why the payload is
\* dropped, or "accepted".  cr is the currentRide the handler closed over.
Verdict(cr, data) ==
    LET lat == IF IsString(data.lat) THEN parseFloat(data.lat.s) ELSE data.lat
        lng == IF IsString(data.long) THEN parseFloat(data.long.s)
               ELSE IF IsString(data.lng) THEN parseFloat(data.lng.s)
               ELSE IF Truthy(data.long) THEN data.long
               ELSE IF Truthy(data.lng) THEN data.lng
               ELSE Num(0)
    IN  IF cr = NoRide \/ (data.rideId # 0 /\ data.rideId # cr.rideId)
        THEN [v |-> "ignored", lat |-> Undefined, lng |-> Undefined]
        ELSE IF data.lat = Str(<<"l", "a", "t">>)
                \/ data.long = Str(<<"l", "o", "n", "g">>)
                \/ data.lat = Str(<<"l", "o", "n", "g">>)
        THEN [v |-> "placeholder", lat |-> Undefined, lng |-> Undefined]
        ELSE IF isNaN(lat) \/ isNaN(lng) \/ IsZero(lat) \/ IsZero(lng)
        THEN [v |-> "invalid", lat |-> lat, lng |-> lng]
        ELSE [v |-> "accepted", lat |-> lat, lng |-> lng]

\* handleLocationUpdate writing the position whatever the checks said
handleLocationUpdateUnchecked(cr, sel, data, emps) ==
    LET r == Verdict(cr, data)
    IN  IF sel # 0 /\ emps[sel] # NoPos
        THEN [emps EXCEPT ![sel] = Pos(r.lat, r.lng)]
        ELSE emps

\* handleLocationUpdate(data) of a render whose currentRide is cr and whose
\* selectedEmployee is sel: the roster after it.  (mapRef.current is never
\* assigned, MapComponent only overwrites a non-null ref, so panTo is not
\* reached.)
handleLocationUpdate(cr, sel, data, emps) ==
    LET r == Verdict(cr, data)
    IN  IF r.v = "accepted" /\ sel # 0 /\ emps[sel] # NoPos
        THEN [emps EXCEPT ![sel] = Pos(r.lat, r.lng)]
        ELSE emps

\* what the mount effect's render closed over: the listeners registered by
\* setupSocketEventListeners call the handleLocationUpdate of that render
MountRender == [currentRide |-> NoRide, selectedEmployee |-> 0]

\* karachiLocations of startTestMode
karachiLocations ==
    << <<248607, 670011>>, <<248949, 670300>>, <<248411, 669978>>,
       <<248790, 670400>>, <<248300, 670200>>, <<249100, 670500>> >>

DefaultPos == Pos(Num(248607), Num(670011))

\* the rides getActiveRides() offers in the modal, each with its riderId
ActiveRides == {[rideId |-> 1, riderId |-> 3], [rideId |-> 2, riderId |-> 4]}
RideIds == {r.rideId : r \in ActiveRides}

NoData == [lat |-> Undefined, long |-> Undefined, lng |-> Undefined, rideId |-> 0,
           message |-> Undefined]
NoMsg == [sock |-> 0, ev |-> "none", data |-> NoData]

\* the useState/useRef initial values of a freshly mounted view
ViewInit ==
    /\ awaiting = 0
    /\ awaitTimer = FALSE
    /\ listenSock = 0
    /\ currentRide = NoRide
    /\ selectedEmployee = 0
    /\ isSocketConnected = FALSE
    /\ socketError = Null
    /\ isModalOpen = FALSE
    /\ isTestMode = FALSE
    /\ testInterval = NoInterval
    /\ orphanIntervals = 0
    /\ employees = [r \in RideIds |-> NoPos]

\* the same values, as the state an unmount leaves behind
ViewReset ==
    /\ awaiting' = 0
    /\ awaitTimer' = FALSE
    /\ listenSock' = 0
    /\ currentRide' = NoRide
    /\ selectedEmployee' = 0
    /\ isSocketConnected' = FALSE
    /\ socketError' = Null
    /\ isModalOpen' = FALSE
    /\ isTestMode' = FALSE
    /\ testInterval' = NoInterval
    /\ orphanIntervals' = orphanIntervals
    /\ employees' = [r \in RideIds |-> NoPos]

\* localStorage of a browser that never ran the page, and the useState
\* initial values of AuthProvider
NoItem == "none"

AuthInit ==
    /\ authToken = NoItem
    /\ storedUser = NoItem
    /\ isAuthenticated = FALSE
    /\ user = NoItem
    /\ isLoading = TRUE
    /\ authPhase = "unloaded"
    /\ loginPending = 0
    /\ logoutPending = 0

Init ==
    /\ AuthInit
    /\ socket = 0
    /\ isConnected = FALSE
    /\ reconnectAttempts = 0
    /\ socks = <<>>
    /\ reconnectTimers = 0
    /\ frames = <<>>
    /\ inflight = NoMsg
    /\ mounted = FALSE
    /\ ViewInit

\* view variables the connection handlers never touch
rideVars == <<currentRide, selectedEmployee, isModalOpen, isTestMode, testInterval,
              orphanIntervals, employees>>

\* initializeSocket after `await socketService.connect()` resolved:
\* setIsSocketConnected(true), setSocketError(null), setupSocketEventListeners()
\* (socketService.on attaches to this.socket, and to nothing when it is null)
InitializeSocketResolved(s) ==
    /\ isSocketConnected' = TRUE
    /\ socketError' = Null
    /\ listenSock' = s.socket
    /\ awaiting' = 0
    /\ awaitTimer' = FALSE

\* initializeSocket's catch block
InitializeSocketRejected ==
    /\ isSocketConnected' = FALSE
    /\ socketError' = "Failed to connect to tracking server"
    /\ listenSock' = listenSock
    /\ awaiting' = 0
    /\ awaitTimer' = FALSE

\* A promise settles once, and only the promise of the mount effect's
\* connect() call is held by anyone (the reconnect timer drops the one it
\* gets).  When a handler of socket t has run, the pending `await` of the
\* mounted view continues if t is the socket its connect() call made.
Continue(s, t, timerRan) ==
    IF awaiting = t /\ s.settled = "resolved"
    THEN InitializeSocketResolved(s)
    ELSE IF awaiting = t /\ s.settled = "rejected"
    THEN InitializeSocketRejected
    ELSE /\ awaitTimer' = (awaitTimer /\ ~timerRan)
         /\ UNCHANGED <<isSocketConnected, socketError, listenSock, awaiting>>

\* the mount effect: initializeSocket()
Mount ==
    /\ UNCHANGED authVars
    /\ ~mounted
    /\ UNCHANGED inflight
    /\ mounted' = TRUE
    /\ LET s == connect(Svc)
       IN  /\ SvcIs(s)
           /\ IF s.settled = "resolved"
              THEN InitializeSocketResolved(s)
              ELSE /\ awaiting' = s.socket
                   /\ awaitTimer' = TRUE
                   /\ UNCHANGED <<isSocketConnected, socketError, listenSock>>
    /\ UNCHANGED rideVars

\* the cleanups of both mount effects; the component's state goes with it
\* (what a promise still pending does later reaches no mounted view)
Unmount ==
    /\ UNCHANGED authVars
    /\ mounted
    /\ UNCHANGED inflight
    /\ mounted' = FALSE
    /\ SvcIs(disconnect(Svc))
    /\ ViewReset

(* ------------------- transports: the environment ----------------------- *)
Socks == 1..Len(socks)

\* socket t reports 'connect'
TransportOpen(t) ==
    /\ UNCHANGED authVars
    /\ socks[t] = "opening"
    /\ UNCHANGED inflight
    /\ LET s == onConnect([Svc EXCEPT !.socks[t] = "open"])
       IN  SvcIs(s) /\ Continue(s, t, FALSE)
    /\ UNCHANGED <<mounted, rideVars>>

\* socket t reports 'connect_error': an attempt to open it has failed, the
\* first or one of socket.io's own retries; socket.io keeps trying
TransportError(t) ==
    /\ UNCHANGED authVars
    /\ socks[t] \in {"opening", "closed"}
    /\ UNCHANGED inflight
    /\ LET s == onConnectError([Svc EXCEPT !.socks[t] = "closed"])
       IN  SvcIs(s) /\ Continue(s, t, FALSE)
    /\ UNCHANGED <<mounted, rideVars>>

\* the 10 s timer of the connect() call the view awaits (the timers of the
\* other connect() calls can only reject promises nobody holds)
ConnectTimeout ==
    /\ UNCHANGED authVars
    /\ awaiting # 0
    /\ UNCHANGED inflight
    /\ awaitTimer
    /\ LET s == onConnectTimeout(Svc)
       IN  SvcIs(s) /\ Continue(s, awaiting, TRUE)
    /\ UNCHANGED <<mounted, rideVars>>

\* socket t is closed from outside: 'disconnect' with a reason other than
\* the client's own
TransportDrop(t, reason) ==
    /\ UNCHANGED authVars
    /\ socks[t] = "open"
    /\ UNCHANGED inflight
    /\ SvcIs(onDisconnect([Svc EXCEPT !.socks[t] = "closed"], reason))
    /\ UNCHANGED viewVars

\* socket.io's own reconnection (on by default, io() does not turn it off)
\* brings a dropped socket back: 'connect' fires again on the same socket
TransportReopen(t) ==
    /\ UNCHANGED authVars
    /\ socks[t] = "closed"
    /\ UNCHANGED inflight
    /\ LET s == onConnect([Svc EXCEPT !.socks[t] = "open"])
       IN  SvcIs(s) /\ Continue(s, t, FALSE)
    /\ UNCHANGED <<mounted, rideVars>>

\* the setTimeout(() => this.connect(), 5000) of the 'disconnect' handler
ReconnectTimerFires ==
    /\ UNCHANGED authVars
    /\ reconnectTimers > 0
    /\ UNCHANGED inflight
    /\ SvcIs(connect([Svc EXCEPT !.timers = @ - 1]))
    /\ UNCHANGED viewVars

(* ----------------------- the view's handlers --------------------------- *)
\* stopTestMode without its clearInterval
stopTestModeFlagOnly ==
    /\ testInterval' = testInterval
    /\ orphanIntervals' = orphanIntervals
    /\ isTestMode' = FALSE

\* stopTestMode()
stopTestMode ==
    /\ testInterval' = NoInterval
    /\ orphanIntervals' = orphanIntervals
    /\ isTestMode' = FALSE

\* the "Track Ride" button (shown while no employee is selected, enabled
\* while isSocketConnected): setIsModalOpen(true)
OpenModal ==
    /\ UNCHANGED authVars
    /\ mounted /\ selectedEmployee = 0 /\ isSocketConnected /\ ~isModalOpen
    /\ isModalOpen' = TRUE
    /\ UNCHANGED <<svcVars, envVars, mounted, awaiting, awaitTimer, listenSock, currentRide,
                   selectedEmployee, isSocketConnected, socketError, isTestMode,
                   testInterval, orphanIntervals, employees>>

\* handleModalClose
CloseModal ==
    /\ UNCHANGED authVars
    /\ mounted /\ isModalOpen
    /\ isModalOpen' = FALSE
    /\ UNCHANGED <<svcVars, envVars, mounted, awaiting, awaitTimer, listenSock, currentRide,
                   selectedEmployee, isSocketConnected, socketError, isTestMode,
                   testInterval, orphanIntervals, employees>>

\* a click on the marker of the selected employee (the only marker shown):
\* onEmployeeSelect(null)
MarkerClick ==
    /\ UNCHANGED authVars
    /\ mounted /\ selectedEmployee # 0 /\ employees[selectedEmployee] # NoPos
    /\ selectedEmployee' = 0
    /\ UNCHANGED <<svcVars, envVars, mounted, awaiting, awaitTimer, listenSock, currentRide,
                   isModalOpen, isSocketConnected, socketError, isTestMode,
                   testInterval, orphanIntervals, employees>>

\* handleEmployeeSelect with its two emits in the other order
SelectEmitsJoinFirst(s, ride) ==
    LET s1 == IF ~isSocketConnected THEN s
              ELSE joinRideRoom(s, ride.rideId, ride.riderId)
    IN  IF currentRide # NoRide /\ isSocketConnected
        THEN leaveRideRoom(s1, currentRide.rideId, currentRide.riderId)
        ELSE s1

\* the service after handleEmployeeSelect(rideId, riderId, name)
SelectEmits(s, ride) ==
    LET s1 == IF currentRide # NoRide /\ isSocketConnected
              THEN leaveRideRoom(s, currentRide.rideId, currentRide.riderId)
              ELSE s
    IN  IF ~isSocketConnected THEN s1
        ELSE joinRideRoom(s1, ride.rideId, ride.riderId)

\* handleEmployeeSelect, called by the modal for one of its rides
handleEmployeeSelect(ride) ==
    /\ UNCHANGED authVars
    /\ mounted /\ isModalOpen
    /\ SvcIs(SelectEmits(Svc, ride))
    /\ currentRide' = ride
    /\ selectedEmployee' = ride.rideId
    /\ isModalOpen' = FALSE
    /\ employees' = IF employees[ride.rideId] # NoPos THEN employees
                    ELSE [employees EXCEPT ![ride.rideId] = DefaultPos]
    /\ socketError' = IF ~isSocketConnected
                      THEN "Socket disconnected - cannot track in real-time"
                      ELSE socketError
    /\ UNCHANGED <<envVars, mounted, awaiting, awaitTimer, listenSock, isSocketConnected,
                   isTestMode, testInterval,
                   orphanIntervals>>

\* the service after stopTracking
StopEmits(s) ==
    IF currentRide # NoRide /\ isSocketConnected
    THEN leaveRideRoom(s, currentRide.rideId, currentRide.riderId)
    ELSE s

\* stopTracking, the "Stop Tracking" button of the selected employee's panel
stopTracking ==
    /\ UNCHANGED authVars
    /\ mounted /\ selectedEmployee # 0
    /\ SvcIs(StopEmits(Svc))
    /\ stopTestMode
    /\ currentRide' = NoRide
    /\ selectedEmployee' = 0
    /\ socketError' = Null
    /\ UNCHANGED <<envVars, mounted, awaiting, awaitTimer, listenSock, isSocketConnected,
                   isModalOpen, employees>>

\* startTestMode, the "Enable Test Mode" button (shown while a ride is
\* tracked and test mode is off); the interval callback closes over the
\* currentRide and the handleLocationUpdate of this render
startTestMode ==
    /\ UNCHANGED authVars
    /\ mounted /\ currentRide # NoRide /\ ~isTestMode
    /\ isTestMode' = TRUE
    /\ testInterval' = [on |-> TRUE, ride |-> currentRide,
                        selected |-> selectedEmployee, locationIndex |-> 0]
    /\ orphanIntervals' = IF testInterval.on THEN orphanIntervals + 1 ELSE orphanIntervals
    /\ UNCHANGED <<svcVars, envVars, mounted, awaiting, awaitTimer, listenSock, currentRide,
                   selectedEmployee, isSocketConnected, socketError, isModalOpen, employees>>

\* the "Stop" button of the test mode banner
StopTestModeClick ==
    /\ UNCHANGED authVars
    /\ mounted /\ currentRide # NoRide /\ isTestMode
    /\ stopTestMode
    /\ UNCHANGED <<svcVars, envVars, mounted, awaiting, awaitTimer, listenSock, currentRide,
                   selectedEmployee, isSocketConnected, socketError, isModalOpen, employees>>

\* the interval callback cycling over one entry too few
mockDataShortCycle(iv) ==
    LET location == karachiLocations[(iv.locationIndex % (Len(karachiLocations) - 1)) + 1]
    IN  Payload(Str(toString(location[1])), Str(toString(location[2])), Undefined,
                iv.ride.rideId)

\* the payload the interval callback builds on its tick
mockData(iv) ==
    LET location == karachiLocations[(iv.locationIndex % Len(karachiLocations)) + 1]
    IN  Payload(Str(toString(location[1])), Str(toString(location[2])), Undefined,
                iv.ride.rideId)

\* one tick of the setInterval callback
TestTick ==
    /\ UNCHANGED authVars
    /\ testInterval.on
    /\ testInterval' = [testInterval EXCEPT !.locationIndex = @ + 1]
    /\ employees' = handleLocationUpdate(testInterval.ride, testInterval.selected,
                                         mockData(testInterval), employees)
    /\ UNCHANGED <<svcVars, envVars, mounted, awaiting, awaitTimer, listenSock, currentRide,
                   selectedEmployee, isSocketConnected, socketError, isModalOpen, isTestMode,
                   orphanIntervals>>

(* --------------------------- the server -------------------------------- *)
HasFrame(t, ev) == \E i \in 1..Len(frames) : frames[i].sock = t /\ frames[i].ev = ev

\* The server sends an event on open socket t.  It acknowledges what it was
\* sent (roomAdded after a join, roomLeft after a leave) and feeds updates
\* to sockets that joined a room; error may come at any time.  Only the
\* service's socket and the socket that carries the view's listeners are
\* followed: an event on any other socket reaches nothing but a log line.
ServerEmit(t, ev, data) ==
    /\ UNCHANGED authVars
    /\ inflight = NoMsg
    /\ socks[t] = "open"
    /\ t \in {socket, listenSock}
    /\ CASE ev = "roomAdded" -> HasFrame(t, "joinRideRoom") /\ data = NoData
         [] ev = "roomLeft" -> HasFrame(t, "leaveRideRoom") /\ data = NoData
         [] ev = "updatePassengers" -> HasFrame(t, "joinRideRoom")
         [] OTHER -> TRUE
    /\ inflight' = [sock |-> t, ev |-> ev, data |-> data]
    /\ UNCHANGED <<svcVars, viewVars>>

\* the listeners of setupSocketEventListeners
onRoomAdded ==
    /\ socketError' = Null
    /\ UNCHANGED <<currentRide, employees>>

onUpdatePassengers(data) ==
    /\ employees' = handleLocationUpdate(MountRender.currentRide,
                                         MountRender.selectedEmployee, data, employees)
    /\ UNCHANGED <<currentRide, socketError>>

onRoomLeft ==
    /\ currentRide' = NoRide
    /\ UNCHANGED <<socketError, employees>>

onError(data) ==
    /\ socketError' = IF Truthy(data.message) THEN "server message"
                      ELSE "Socket error occurred"
    /\ UNCHANGED <<currentRide, employees>>

\* the event in flight arrives: the listeners run if its socket is still
\* open and is the one the view's listeners are on
Deliver ==
    /\ UNCHANGED authVars
    /\ inflight # NoMsg
    /\ inflight' = NoMsg
    /\ IF mounted /\ inflight.sock = listenSock /\ socks[inflight.sock] = "open"
       THEN CASE inflight.ev = "roomAdded" -> onRoomAdded
              [] inflight.ev = "updatePassengers" -> onUpdatePassengers(inflight.data)
              [] inflight.ev = "roomLeft" -> onRoomLeft
              [] OTHER -> onError(inflight.data)
       ELSE UNCHANGED <<currentRide, socketError, employees>>
    /\ UNCHANGED <<svcVars, mounted, awaiting, awaitTimer, listenSock, selectedEmployee,
                   isSocketConnected, isModalOpen, isTestMode, testInterval,
                   orphanIntervals>>

\* the updatePassengers payloads the server sends in SpecFeed
P(cs) == Str(cs)
Lat1 == <<"2", "4", ".", "8", "9", "4", "9">>
Lng1 == <<"6", "7", ".", "0", "3">>
Payloads ==
    {Payload(P(Lat1), P(Lng1), Undefined, r) : r \in RideIds \cup {0}}
    \cup {Payload(Num(248411), Undefined, Num(669978), 0)}

ErrorData == {[NoData EXCEPT !.message = m] : m \in {Undefined, P(<<"x">>)}}

\* what a step may leave behind under the bounds of a specification
Cap(maxSockets, maxTimers, maxFrames, maxTicks) ==
    /\ Len(socks') <= maxSockets
    /\ reconnectTimers' <= maxTimers
    /\ Len(frames') <= maxFrames
    /\ testInterval'.locationIndex <= maxTicks

(* The connection alone: the service, its sockets and timers, under a view *)
(* that mounts and unmounts.                                               *)
CapReconnect == Cap(MaxSocketsReconnect, MaxTimersReconnect, 0, 0)

NextReconnect ==
    \/ Mount /\ CapReconnect
    \/ Unmount /\ CapReconnect
    \/ \E t \in Socks : TransportOpen(t) /\ CapReconnect
    \/ \E t \in Socks : TransportError(t) /\ CapReconnect
    \/ ConnectTimeout /\ CapReconnect
    \/ \E t \in Socks, reason \in UnexpectedReasons : TransportDrop(t, reason) /\ CapReconnect
    \/ \E t \in Socks : TransportReopen(t) /\ CapReconnect
    \/ ReconnectTimerFires /\ CapReconnect

SpecReconnect == Init /\ [][NextReconnect]_vars

(* Room membership: rides are selected and stopped over a connection that  *)
(* drops and comes back; the server acknowledges leaves.                   *)
CapRooms == Cap(MaxSocketsRooms, MaxTimersRooms, MaxFramesRooms, 0)

NextRooms ==
    \/ Mount /\ CapRooms
    \/ \E t \in Socks : TransportOpen(t) /\ CapRooms
    \/ \E t \in Socks, reason \in UnexpectedReasons : TransportDrop(t, reason) /\ CapRooms
    \/ \E t \in Socks : TransportReopen(t) /\ CapRooms
    \/ ReconnectTimerFires /\ CapRooms
    \/ OpenModal /\ CapRooms
    \/ CloseModal /\ CapRooms
    \/ MarkerClick /\ CapRooms
    \/ \E ride \in ActiveRides : handleEmployeeSelect(ride) /\ CapRooms
    \/ stopTracking /\ CapRooms
    \/ \E t \in Socks : ServerEmit(t, "roomLeft", NoData) /\ CapRooms
    \/ Deliver /\ CapRooms

SpecRooms == Init /\ [][NextRooms]_vars

(* Acknowledgements: one view on one socket that stays open; the server    *)
(* answers joins with roomAdded and leaves with roomLeft.                  *)
CapAcks == Cap(1, 0, MaxFramesAcks, 0)

NextAcks ==
    \/ Mount /\ CapAcks
    \/ \E t \in Socks : TransportOpen(t) /\ CapAcks
    \/ OpenModal /\ CapAcks
    \/ MarkerClick /\ CapAcks
    \/ \E ride \in ActiveRides : handleEmployeeSelect(ride) /\ CapAcks
    \/ stopTracking /\ CapAcks
    \/ \E t \in Socks, ev \in {"roomAdded", "roomLeft"} : ServerEmit(t, ev, NoData) /\ CapAcks
    \/ Deliver /\ CapAcks

SpecAcks == Init /\ [][NextAcks]_vars

(* The update pipeline: the server's updatePassengers events and the test  *)
(* mode interval feed handleLocationUpdate while rides are selected, over  *)
(* connections that stay up until the view is torn down.                   *)
CapFeed == Cap(MaxSocketsFeed, 0, MaxFramesFeed, MaxTicks)

NextFeed ==
    \/ Mount /\ CapFeed
    \/ Unmount /\ CapFeed
    \/ \E t \in Socks : TransportOpen(t) /\ CapFeed
    \/ OpenModal /\ CapFeed
    \/ MarkerClick /\ CapFeed
    \/ \E ride \in ActiveRides : handleEmployeeSelect(ride) /\ CapFeed
    \/ stopTracking /\ CapFeed
    \/ startTestMode /\ CapFeed
    \/ StopTestModeClick /\ CapFeed
    \/ TestTick /\ CapFeed
    \/ \E t \in Socks, data \in Payloads : ServerEmit(t, "updatePassengers", data) /\ CapFeed
    \/ Deliver /\ CapFeed

SpecFeed == Init /\ [][NextFeed]_vars

(* The attempt counter under every operation of the service: connect() and  *)
(* disconnect() from mounts and unmounts, on() when the listeners are set   *)
(* up, joinRideRoom and leaveRideRoom from selections and stops, over       *)
(* sockets that open and are closed by the server.                         *)
CapCounter == Cap(MaxSocketsCounter, MaxTimersCounter, MaxFramesCounter, 0)

NextCounter ==
    \/ Mount /\ CapCounter
    \/ Unmount /\ CapCounter
    \/ \E t \in Socks : TransportOpen(t) /\ CapCounter
    \/ \E t \in Socks, reason \in UnexpectedReasons : TransportDrop(t, reason) /\ CapCounter
    \/ \E t \in Socks : TransportReopen(t) /\ CapCounter
    \/ ReconnectTimerFires /\ CapCounter
    \/ OpenModal /\ CapCounter
    \/ \E ride \in {r \in ActiveRides : r.rideId = 1} : handleEmployeeSelect(ride) /\ CapCounter
    \/ stopTracking /\ CapCounter

SpecCounter == Init /\ [][NextCounter]_vars

(* handleLocationUpdate on its own: a mounted view on an open connection,   *)
(* in any of the tracking states the handlers leave it in, is handed any   *)
(* payload of FieldValues, and the handleLocationUpdate of its current     *)
(* render is applied to it.                                                *)
FieldValues ==
    {Undefined, Num(0), Num(248411), P(<<"0">>), P(<<"0", ".", "0">>), P(Lat1), P(Lng1),
     P(<<"l", "a", "t">>), P(<<"l", "o", "n", "g">>),
     P(InfinityWord), P(<<"-">> \o InfinityWord)}

AnyPayloads ==
    {Payload(lat, long, lng, r) :
        lat \in FieldValues, long \in FieldValues, lng \in FieldValues,
        r \in RideIds \cup {0}}

\* currentRide, selectedEmployee and roster as select, deselect, stop and
\* roomLeft leave them: the selected ride and the tracked ride are in the
\* roster, and a selection made while a ride is tracked is that ride
TrackingStates ==
    {st \in [currentRide : ActiveRides \cup {NoRide},
             selectedEmployee : RideIds \cup {0},
             employees : [RideIds -> {NoPos, DefaultPos}]] :
        /\ st.currentRide # NoRide => st.selectedEmployee \in {0, st.currentRide.rideId}
        /\ st.currentRide # NoRide => st.employees[st.currentRide.rideId] # NoPos
        /\ st.selectedEmployee # 0 => st.employees[st.selectedEmployee] # NoPos}

InitNormalizer ==
    /\ AuthInit
    /\ socket = 1
    /\ isConnected = TRUE
    /\ reconnectAttempts = 0
    /\ socks = <<"open">>
    /\ reconnectTimers = 0
    /\ frames = <<>>
    /\ mounted = TRUE
    /\ awaiting = 0
    /\ awaitTimer = FALSE
    /\ listenSock = 1
    /\ isSocketConnected = TRUE
    /\ socketError = Null
    /\ isModalOpen = FALSE
    /\ isTestMode = FALSE
    /\ testInterval = NoInterval
    /\ orphanIntervals = 0
    /\ \E st \in TrackingStates :
           /\ currentRide = st.currentRide
           /\ selectedEmployee = st.selectedEmployee
           /\ employees = st.employees
    /\ \E data \in AnyPayloads :
           inflight = [sock |-> 1, ev |-> "updatePassengers", data |-> data]

\* handleLocationUpdate(data) of the current render; the payload stays in
\* sight, marked as handled
Normalize ==
    /\ UNCHANGED authVars
    /\ mounted
    /\ inflight.ev = "updatePassengers"
    /\ inflight' = [inflight EXCEPT !.ev = "handled"]
    /\ employees' = handleLocationUpdate(currentRide, selectedEmployee, inflight.data,
                                         employees)
    /\ UNCHANGED <<svcVars, mounted, awaiting, awaitTimer, listenSock, currentRide,
                   selectedEmployee, isSocketConnected, socketError, isModalOpen,
                   isTestMode, testInterval,
                   orphanIntervals>>

NextNormalizer ==
    \/ Normalize

SpecNormalizer == InitNormalizer /\ [][NextNormalizer]_vars

(* --------------------------- AuthProvider ------------------------------ *)
(* Each stretch of an async function between two awaits is one action; the *)
(* API calls are the environment and answer in any order, with any         *)
(* outcome.  App.tsx shows a spinner while isLoading, the public routes    *)
(* (with the login page) while not authenticated and the protected routes  *)
(* (with the logout entry) while authenticated.                            *)

\* what loginUser() can come back with: a body (hasError, data or none, the
\* two token fields, a user or none), or an exception
LoginOutcomes ==
    [thrown : {FALSE}, hasError : BOOLEAN, data : BOOLEAN,
     accessToken : {NoItem, "t1"}, sessionToken : {NoItem, "t2"}, user : BOOLEAN]
    \cup {[thrown |-> TRUE, hasError |-> FALSE, data |-> FALSE,
           accessToken |-> NoItem, sessionToken |-> NoItem, user |-> FALSE]}

\* getUserProfile() and logoutUser(): a body without or with hasError, or
\* an exception
ApiOutcomes == {"ok", "hasError", "thrown"}

\* removeAuthToken(); localStorage.removeItem('user');
\* setIsAuthenticated(false); setUser(null)
ClearAuth ==
    /\ authToken' = NoItem
    /\ storedUser' = NoItem
    /\ isAuthenticated' = FALSE
    /\ user' = NoItem

\* the page is loaded: AuthProvider mounts and checkAuthStatus runs up to
\* its await (JSON.parse gives back what JSON.stringify stored)
checkAuthStatus ==
    /\ authPhase = "unloaded"
    /\ IF authToken # NoItem /\ storedUser # NoItem
       THEN user' = storedUser /\ isAuthenticated' = TRUE
       ELSE UNCHANGED <<user, isAuthenticated>>
    /\ IF authToken # NoItem
       THEN authPhase' = "checking" /\ isLoading' = isLoading
       ELSE authPhase' = "ready" /\ isLoading' = FALSE
    /\ UNCHANGED <<authToken, storedUser, loginPending, logoutPending>>
    /\ UNCHANGED <<svcVars, envVars, viewVars>>

\* getUserProfile() answers: the rest of checkAuthStatus
ProfileResponds(outcome) ==
    /\ authPhase = "checking"
    /\ IF outcome = "ok"
       THEN /\ user' = "freshUser"
            /\ isAuthenticated' = TRUE
            /\ storedUser' = "freshUser"
            /\ authToken' = authToken
       ELSE ClearAuth
    /\ isLoading' = FALSE
    /\ authPhase' = "ready"
    /\ UNCHANGED <<loginPending, logoutPending>>
    /\ UNCHANGED <<svcVars, envVars, viewVars>>

\* login(credentials), up to `await loginUser(credentials)`
login ==
    /\ authPhase = "ready" /\ ~isLoading /\ ~isAuthenticated
    /\ loginPending' = loginPending + 1
    /\ UNCHANGED <<authToken, storedUser, isAuthenticated, user, isLoading, authPhase,
                   logoutPending>>
    /\ UNCHANGED <<svcVars, envVars, viewVars>>

\* loginUser() answers: the rest of login
LoginResponds(r) ==
    /\ loginPending > 0
    /\ loginPending' = loginPending - 1
    /\ IF ~r.thrown /\ ~r.hasError /\ r.data
       THEN LET token == IF r.accessToken # NoItem THEN r.accessToken ELSE r.sessionToken
            IN  /\ authToken' = IF token # NoItem THEN token ELSE authToken
                /\ IF r.user
                   THEN user' = "loggedUser" /\ storedUser' = "loggedUser"
                   ELSE UNCHANGED <<user, storedUser>>
                /\ isAuthenticated' = TRUE
       ELSE UNCHANGED <<authToken, storedUser, isAuthenticated, user>>
    /\ UNCHANGED <<isLoading, authPhase, logoutPending>>
    /\ UNCHANGED <<svcVars, envVars, viewVars>>

\* logout(), up to `await logoutUser()`; logoutUser() throws before any
\* request when there is no token, and logout then runs through its catch
\* and finally at once
logout ==
    /\ authPhase = "ready" /\ ~isLoading /\ isAuthenticated
    /\ IF authToken = NoItem
       THEN ClearAuth /\ logoutPending' = logoutPending
       ELSE /\ logoutPending' = logoutPending + 1
            /\ UNCHANGED <<authToken, storedUser, isAuthenticated, user>>
    /\ UNCHANGED <<isLoading, authPhase, loginPending>>
    /\ UNCHANGED <<svcVars, envVars, viewVars>>

\* logoutUser() answers: the toast of the outcome, then the finally block
LogoutResponds(outcome) ==
    /\ logoutPending > 0
    /\ logoutPending' = logoutPending - 1
    /\ ClearAuth
    /\ UNCHANGED <<isLoading, authPhase, loginPending>>
    /\ UNCHANGED <<svcVars, envVars, viewVars>>

\* the page is closed or reloaded: the React state and every pending call
\* go, localStorage stays
PageUnload ==
    /\ authPhase # "unloaded"
    /\ authPhase' = "unloaded"
    /\ isAuthenticated' = FALSE
    /\ user' = NoItem
    /\ isLoading' = TRUE
    /\ loginPending' = 0
    /\ logoutPending' = 0
    /\ UNCHANGED <<authToken, storedUser>>
    /\ UNCHANGED <<svcVars, envVars, viewVars>>

CapAuth ==
    /\ loginPending' <= MaxLoginsAuth
    /\ logoutPending' <= MaxLogoutsAuth

NextAuth ==
    \/ checkAuthStatus /\ CapAuth
    \/ \E outcome \in ApiOutcomes : ProfileResponds(outcome) /\ CapAuth
    \/ login /\ CapAuth
    \/ \E r \in LoginOutcomes : LoginResponds(r) /\ CapAuth
    \/ logout /\ CapAuth
    \/ \E outcome \in ApiOutcomes : LogoutResponds(outcome) /\ CapAuth
    \/ PageUnload /\ CapAuth

SpecAuth == Init /\ [][NextAuth]_vars

(* ======================== the connection's claims ====================== *)
\* sockets of the service that are connected or on their first attempt
Live == {t \in Socks : socks[t] \in {"open", "opening"}}

\* C2: once disconnect() has run (the view is unmounted and has not called
\* connect() again) nothing is left scheduled: no reconnect timer is
\* pending and the test mode interval is cleared.
C2_DisconnectCancelsTimers ==
    ~mounted => (reconnectTimers = 0 /\ ~testInterval.on)

\* C3: the attempt counter counts the reconnect timers scheduled since the
\* last 'connect' event (it changes only by one with a timer scheduled, or
\* back to 0 on a 'connect'), it never exceeds 5, and with 5 attempts
\* counted a further unexpected disconnect schedules nothing.
C3_ReconnectBound ==
    [][ /\ reconnectAttempts' <= 5
        /\ reconnectTimers' > reconnectTimers
              => /\ reconnectAttempts < 5
                 /\ reconnectAttempts' = reconnectAttempts + 1
                 /\ reconnectTimers' = reconnectTimers + 1
        /\ reconnectAttempts' # reconnectAttempts
              => \/ /\ reconnectAttempts' = reconnectAttempts + 1
                    /\ reconnectTimers' = reconnectTimers + 1
                 \/ reconnectAttempts' = 0 /\ isConnected'
      ]_vars

\* C3's case: five attempts are counted, every socket is down and no timer
\* is pending: the service has stopped retrying.
C3_Exhausted ==
    /\ mounted
    /\ reconnectAttempts = 5
    /\ reconnectTimers = 0
    /\ Live = {}
    /\ \E t \in Socks : socks[t] = "closed"

\* C4: while the view is mounted, once an unexpected close has been counted
\* and fewer than 5 attempts are made, the service is retrying: a socket is
\* connected or on its first attempt, or a reconnect timer is pending.
C4_RetryContinues ==
    (mounted /\ reconnectAttempts \in 1..4 /\ Live = {}) => reconnectTimers > 0

\* C5: the step in which the view calls disconnect() schedules no reconnect
\* timer and leaves the attempt counter alone; after it the service is not
\* connected, holds no socket, and the socket it held is closed for good.
C5_DeliberateDisconnect ==
    [][ (mounted /\ ~mounted')
           => /\ reconnectTimers' = reconnectTimers
              /\ reconnectAttempts' = reconnectAttempts
              /\ socket' = 0
              /\ ~isConnected'
              /\ socket # 0 => socks'[socket] = "dead"
      ]_vars

\* C5's case: disconnect() has closed a socket after unexpected closes were
\* counted, and no timer is pending.
C5_Disconnected ==
    /\ ~mounted
    /\ socket = 0
    /\ ~isConnected
    /\ reconnectAttempts > 0
    /\ reconnectTimers = 0
    /\ \E t \in Socks : socks[t] = "dead"

\* C6: a connect() call made while the service's socket is connected (by
\* the mount effect, or by a reconnect timer) creates no socket, leaves the
\* socket, the flag and the counter as they are, and resolves at once: the
\* mounting view goes on to setIsSocketConnected(true) in the same step.
C6_ConnectIdempotent ==
    [][ (/\ Connected(Svc, socket)
         /\ \/ ~mounted /\ mounted'
            \/ reconnectTimers' = reconnectTimers - 1)
           => /\ socks' = socks
              /\ socket' = socket
              /\ isConnected' = isConnected
              /\ reconnectAttempts' = reconnectAttempts
              /\ connect(Svc).settled = "resolved"
              /\ (~mounted /\ mounted') => (isSocketConnected' /\ awaiting' = 0)
      ]_vars

\* C6's case: a connect() call is due while the socket is connected (a
\* reconnect timer is pending, and will call connect()).
C6_CallsWhileConnected ==
    /\ Connected(Svc, socket)
    /\ isConnected
    /\ reconnectTimers >= 1

\* C7: at most one socket of the service is connected or connecting.
C7_OneTransport ==
    Cardinality(Live) <= 1

(* ========================== the rooms' claims ========================== *)
\* the frames joinRideRoom and leaveRideRoom put on socket t
JoinFrame(t, ride) ==
    [sock |-> t, ev |-> "joinRideRoom", rideId |-> ride.rideId,
     userId |-> ride.riderId, role |-> "admin"]
LeaveFrame(t, ride) ==
    [sock |-> t, ev |-> "leaveRideRoom", rideId |-> ride.rideId,
     userId |-> ride.riderId, role |-> ""]

\* the rides joined on socket t and not left since
Joined(t) ==
    {r \in RideIds :
        \E i \in 1..Len(frames) :
            /\ frames[i].sock = t /\ frames[i].ev = "joinRideRoom" /\ frames[i].rideId = r
            /\ \A j \in (i + 1)..Len(frames) :
                   ~(frames[j].sock = t /\ frames[j].ev = "leaveRideRoom"
                     /\ frames[j].rideId = r)}

\* C1: an updatePassengers event that reaches the view's listener while a
\* ride is tracked, for that ride or for no ride in particular, with
\* coordinates that pass the checks, moves the selected employee to them.
C1_UpdateJudgedAtReceipt ==
    [][ (/\ inflight.ev = "updatePassengers"
         /\ inflight' = NoMsg
         /\ mounted
         /\ inflight.sock = listenSock
         /\ socks[inflight.sock] = "open"
         /\ currentRide # NoRide
         /\ selectedEmployee = currentRide.rideId
         /\ Verdict(currentRide, inflight.data).v = "accepted")
           => LET r == Verdict(currentRide, inflight.data)
              IN  employees'[selectedEmployee] = Pos(r.lat, r.lng)
      ]_vars

\* C8: a ride selected while ride A is tracked, the view and the service
\* both taking the connection for up, puts on the service's socket the
\* leave for A, with A's riderId, and right after it the join for the new
\* ride, and nothing else; and whenever a selection made while A is tracked
\* sends a join, that leave is the frame before it.
C8_LeaveBeforeJoin ==
    [][ (selectedEmployee = 0 /\ selectedEmployee' # 0 /\ currentRide # NoRide)
           => /\ (isSocketConnected /\ socket # 0 /\ isConnected)
                    => frames' = frames \o <<LeaveFrame(socket, currentRide),
                                             JoinFrame(socket, currentRide')>>
              /\ (frames' # frames /\ frames'[Len(frames')].ev = "joinRideRoom")
                    => /\ Len(frames') = Len(frames) + 2
                       /\ frames'[Len(frames) + 1] = LeaveFrame(socket, currentRide)
      ]_vars

\* C8's case: the tracked ride was joined right after another ride was left
\* on the same socket.
C8_Switched ==
    \E i \in 1..(Len(frames) - 1) :
        /\ frames[i].ev = "leaveRideRoom"
        /\ frames[i + 1].ev = "joinRideRoom"
        /\ frames[i].sock = frames[i + 1].sock
        /\ frames[i].rideId # frames[i + 1].rideId
        /\ currentRide.rideId = frames[i + 1].rideId

\* C9: on the service's socket at most one ride is joined and not left.
C9_OneRoom ==
    socket # 0 => Cardinality(Joined(socket)) <= 1

\* C10: a selection or a stop leaves the service's socket, flag, counter
\* and timers alone and consumes no event; while the service is not
\* connected (no socket, or the flag down) it sends nothing, and while it
\* is connected each joinRideRoom or leaveRideRoom call it makes adds one
\* frame on the service's socket.
C10_JoinLeaveGuarded ==
    [][ LET selects == selectedEmployee = 0 /\ selectedEmployee' # 0
            stops   == /\ selectedEmployee # 0 /\ selectedEmployee' = 0
                       /\ currentRide # NoRide /\ currentRide' = NoRide
            calls   == IF ~isSocketConnected THEN 0
                       ELSE IF stops THEN 1
                       ELSE IF currentRide # NoRide THEN 2 ELSE 1
        IN  (selects \/ stops)
               => /\ socket' = socket
                  /\ isConnected' = isConnected
                  /\ reconnectAttempts' = reconnectAttempts
                  /\ reconnectTimers' = reconnectTimers
                  /\ socks' = socks
                  /\ inflight' = inflight
                  /\ (socket = 0 \/ ~isConnected) => frames' = frames
                  /\ (socket # 0 /\ isConnected)
                        => /\ Len(frames') = Len(frames) + calls
                           /\ SubSeq(frames', 1, Len(frames)) = frames
                           /\ \A i \in (Len(frames) + 1)..Len(frames') :
                                  frames'[i].sock = socket
      ]_vars

\* C10's case: a ride is tracked for which no frame was sent: its join was
\* called while the service was not connected.
C10_JoinSuppressed ==
    /\ currentRide # NoRide
    /\ selectedEmployee = currentRide.rideId
    /\ isSocketConnected
    /\ ~isConnected
    /\ \A i \in 1..Len(frames) : frames[i].rideId # currentRide.rideId

\* C11: a ride becomes the tracked ride (the membership the view shows as
\* "Tracking" and judges updates against) only in a step that hands a
\* roomAdded event to the view's listener.
C11_ActiveOnlyOnRoomAdded ==
    [][ (currentRide' # currentRide /\ currentRide' # NoRide)
           => (inflight.ev = "roomAdded" /\ inflight' = NoMsg)
      ]_vars

(* ==================== handleLocationUpdate's claims ==================== *)
\* a step of SpecNormalizer in which handleLocationUpdate handles a payload
Handles == inflight.ev = "updatePassengers" /\ inflight'.ev = "handled"

\* the ways a payload field says zero, and the placeholder strings
ZeroForms == {Num(0), P(<<"0">>), P(<<"0", ".", "0">>)}
Sentinels == {P(<<"l", "a", "t">>), P(<<"l", "o", "n", "g">>)}

\* C12: a payload handled while no ride is tracked, or carrying the rideId
\* of another ride than the tracked one, leaves the roster as it is; a
\* payload with good coordinates and no rideId, like one with the tracked
\* ride's rideId, moves the selected employee whenever a ride is tracked.
C12_RelevanceFilter ==
    [][ Handles =>
          LET d == inflight.data
          IN  /\ (currentRide = NoRide
                    \/ (d.rideId # 0 /\ d.rideId # currentRide.rideId))
                    => employees' = employees
              /\ (/\ currentRide # NoRide
                  /\ d.rideId \in {0, currentRide.rideId}
                  /\ d.lat = P(Lat1) /\ d.long = P(Lng1)
                  /\ selectedEmployee # 0)
                    => employees'[selectedEmployee] = Pos(Num(248949), Num(670300))
      ]_vars

\* C12's case: a payload with good coordinates for another ride than the
\* tracked and selected one was handled, and the employee has not moved.
C12_OtherRideDropped ==
    /\ inflight.ev = "handled"
    /\ currentRide # NoRide
    /\ inflight.data.rideId \notin {0, currentRide.rideId}
    /\ inflight.data.lat = P(Lat1) /\ inflight.data.long = P(Lng1)
    /\ selectedEmployee = currentRide.rideId
    /\ employees[selectedEmployee] = DefaultPos

\* C13: a payload for the tracked ride whose latitude is 0 and whose
\* longitude is 67.03 moves the selected employee to (0, 67.03).
C13_OneZeroAccepted ==
    [][ (/\ Handles
         /\ currentRide # NoRide
         /\ inflight.data.rideId \in {0, currentRide.rideId}
         /\ selectedEmployee # 0
         /\ inflight.data.lat \in {Num(0), P(<<"0">>)}
         /\ inflight.data.long = P(Lng1))
           => employees'[selectedEmployee] = Pos(Num(0), Num(670300))
      ]_vars

\* C14: a payload whose latitude is a zero and whose longitude resolves to
\* zero (long a zero string; or long absent or the number 0 with lng a
\* zero or absent) leaves the roster as it is, whatever is tracked.
C14_BothZeroDropped ==
    [][ Handles =>
          LET d == inflight.data
          IN  (/\ d.lat \in ZeroForms
               /\ \/ d.long \in ZeroForms \ {Num(0)}
                  \/ /\ d.long \in {Undefined, Num(0)}
                     /\ d.lng \in ZeroForms \cup {Undefined})
                 => employees' = employees
      ]_vars

\* C14's case: latitude 0 with no longitude at all was handled for the
\* tracked and selected ride, and the employee has not moved.
C14_ZeroLatNoLongitude ==
    /\ inflight.ev = "handled"
    /\ inflight.data.lat = Num(0)
    /\ inflight.data.long = Undefined /\ inflight.data.lng = Undefined
    /\ currentRide # NoRide
    /\ inflight.data.rideId = currentRide.rideId
    /\ selectedEmployee = currentRide.rideId
    /\ employees[selectedEmployee] = DefaultPos

\* C15: a payload with a placeholder string in lat, long or lng leaves the
\* roster as it is.
C15_SentinelDropped ==
    [][ (/\ Handles
         /\ \/ inflight.data.lat \in Sentinels
            \/ inflight.data.long \in Sentinels
            \/ inflight.data.lng \in Sentinels)
           => employees' = employees
      ]_vars

(* ======================== the test mode's claims ======================= *)
\* a step in which the test mode interval ticks
Ticks ==
    /\ testInterval.on /\ testInterval'.on
    /\ testInterval'.locationIndex = testInterval.locationIndex + 1

\* C16: a started interval begins at index 0; its k-th tick hands
\* handleLocationUpdate entry ((k-1) mod 6) + 1 of the six karachiLocations,
\* as strings that parse back to the entry, and moves the employee that was
\* selected at the start to that entry.
C16_SyntheticFeedCycle ==
    [][ /\ (~testInterval.on /\ testInterval'.on) => testInterval'.locationIndex = 0
        /\ Ticks =>
             LET k == testInterval'.locationIndex
                 entry == karachiLocations[((k - 1) % 6) + 1]
                 data == mockData(testInterval)
                 sel == testInterval.selected
             IN  /\ Len(karachiLocations) = 6
                 /\ IsString(data.lat) /\ parseFloat(data.lat.s) = Num(entry[1])
                 /\ IsString(data.long) /\ parseFloat(data.long.s) = Num(entry[2])
                 /\ sel # 0 => employees'[sel] = Pos(Num(entry[1]), Num(entry[2]))
      ]_vars

\* C16's case: the seventh tick of one interval has wrapped around to the
\* first entry, where it put the employee selected at the start.
C16_Wrapped ==
    /\ testInterval.on
    /\ testInterval.locationIndex = 7
    /\ testInterval.selected # 0
    /\ employees[testInterval.selected] = Pos(Num(248607), Num(670011))

\* C17: no interval is ever left running without the ref holding it; a
\* running interval belongs to a mounted view in test mode; and the step
\* that turns test mode off (the Stop button, stopTracking) and the unmount
\* leave no interval running.
C17_OneStoppableInterval ==
    [][ /\ orphanIntervals' = 0
        /\ testInterval'.on => (isTestMode' /\ mounted')
        /\ (isTestMode /\ ~isTestMode') => ~testInterval'.on
        /\ (mounted /\ ~mounted') => ~testInterval'.on
      ]_vars

\* C17's case: test mode ran (a tick moved an employee off the default
\* position) and was stopped while its ride is still tracked.
C17_Stopped ==
    /\ mounted
    /\ currentRide # NoRide
    /\ ~isTestMode
    /\ ~testInterval.on
    /\ \E r \in RideIds : employees[r] \notin {NoPos, DefaultPos}

\* C18: the payload of every tick carries the rideId of the ride tracked
\* when the tick runs, and a tick moves no employee but that ride's.
C18_TaggedWithTrackedRide ==
    [][ Ticks =>
          /\ mockData(testInterval).rideId = currentRide.rideId
          /\ \A r \in RideIds : employees'[r] # employees[r] => r = currentRide.rideId
      ]_vars

(* ======================= the indicator's claims ======================== *)
\* C19: while the view is mounted its isSocketConnected flag, which the
\* Connection Status panel shows, agrees with the service's isConnected.
C19_IndicatorReflectsState ==
    mounted => (isSocketConnected <=> isConnected)

\* C20: once five attempts are counted, no timer is pending and no socket
\* of the service is connected or connecting, the view shows the service as
\* disconnected and carries an advisory message.
C20_ExhaustionVisible ==
    (/\ mounted
     /\ reconnectAttempts = 5
     /\ reconnectTimers = 0
     /\ Live = {}
     /\ ~isConnected)
       => (~isSocketConnected /\ socketError # Null)

(* ========================= connect()'s claims ========================== *)
\* C21: the promise of the connect() call the view awaits is settled by the
\* time that call's 10 s timer has run: while the view still awaits, the
\* timer is still to run.
C21_SettledByTimeout ==
    awaiting # 0 => awaitTimer

\* C22: after every step getConnectionStatus() is true only if isConnected
\* is set and the bound socket is open; it is false when no socket is
\* bound, after disconnect() (the unmount) and after a step in which any
\* socket of the service stopped being open.
C22_StatusNeedsFlagAndTransport ==
    [][ LET status == getConnectionStatus(Svc)'
        IN  /\ status => (/\ isConnected'
                          /\ socket' \in 1..Len(socks')
                          /\ socks'[socket'] = "open")
            /\ socket' = 0 => ~status
            /\ (mounted /\ ~mounted') => ~status
            /\ (\E t \in Socks : socks[t] = "open" /\ socks'[t] # "open") => ~status
      ]_vars

\* C22's case: the flag is set by another socket of the service while the
\* bound socket has not opened yet, and getConnectionStatus() is false.
C22_FlagWithoutTransport ==
    /\ isConnected
    /\ socket # 0
    /\ socks[socket] = "opening"
    /\ ~getConnectionStatus(Svc)

(* ================= handleLocationUpdate's claims, continued ============ *)
\* the strings that parse to an infinity
InfiniteForms == {P(InfinityWord), P(<<"-">> \o InfinityWord)}

\* C23: a payload for the tracked ride whose lat and long are both the
\* number 24.8411 moves the selected employee to (24.8411, 24.8411),
\* whatever its lng field holds.
C23_LongBeforeLng ==
    [][ (/\ Handles
         /\ currentRide # NoRide
         /\ inflight.data.rideId \in {0, currentRide.rideId}
         /\ selectedEmployee # 0
         /\ inflight.data.lat = Num(248411)
         /\ inflight.data.long = Num(248411))
           => employees'[selectedEmployee] = Pos(Num(248411), Num(248411))
      ]_vars

\* C24: a payload whose lat, or whose long, is a string that parses to
\* +Infinity or -Infinity leaves the roster as it is.
C24_FiniteOnly ==
    [][ (/\ Handles
         /\ \/ inflight.data.lat \in InfiniteForms
            \/ inflight.data.long \in InfiniteForms)
           => employees' = employees
      ]_vars

\* C26: a payload that handleLocationUpdate rejects at its relevance,
\* placeholder or validity check changes nothing: the roster, the tracked
\* ride, the selection, the advisory message and the connection indicator
\* are as before.
C26_DroppedHasNoEffect ==
    [][ (/\ Handles
         /\ Verdict(currentRide, inflight.data).v \in {"ignored", "placeholder", "invalid"})
           => /\ employees' = employees
              /\ currentRide' = currentRide
              /\ selectedEmployee' = selectedEmployee
              /\ socketError' = socketError
              /\ isSocketConnected' = isSocketConnected
      ]_vars

\* C26's case: a placeholder payload for the tracked and selected ride was
\* handled; the employee is where the selection put it and no advisory
\* message is set.
C26_PlaceholderHandled ==
    /\ inflight.ev = "handled"
    /\ inflight.data.lat = P(<<"l", "a", "t">>)
    /\ inflight.data.long = P(Lng1)
    /\ currentRide # NoRide
    /\ inflight.data.rideId = currentRide.rideId
    /\ selectedEmployee = currentRide.rideId
    /\ employees[selectedEmployee] = DefaultPos
    /\ socketError = Null

(* ====================== the attempt counter's claim ==================== *)
\* a step in which a socket of the service reports 'connect'
Connects == \E t \in Socks : socks[t] # "open" /\ socks'[t] = "open"
\* a step in which the 'disconnect' handler schedules a reconnect
Schedules == reconnectTimers' = reconnectTimers + 1

C27_StaleRoomLeftIgnored ==
    [][ (/\ inflight.ev = "roomLeft"
         /\ inflight' = NoMsg
         /\ currentRide # NoRide
         /\ socket # 0
         /\ currentRide.rideId \in Joined(socket))
           => currentRide' = currentRide
      ]_vars

\* C28: while the view is mounted with its listeners set up and the
\* service is connected, the socket that carries the listeners is the
\* service's socket.
C28_ListenersFollowConnection ==
    (/\ mounted
     /\ listenSock # 0
     /\ isConnected
     /\ socket # 0
     /\ socks[socket] = "open")
       => listenSock = socket

\* C29: while a ride is tracked, a joinRideRoom frame for it has been sent.
C29_TrackedImpliesJoined ==
    currentRide # NoRide
       => \E i \in 1..Len(frames) :
             frames[i].ev = "joinRideRoom" /\ frames[i].rideId = currentRide.rideId

(* ========================= AuthProvider's claim ======================== *)
\* C30: whenever isAuthenticated is true, localStorage holds an auth token.
C30_AuthenticatedHasToken ==
    isAuthenticated => authToken # NoItem

====
